---- MODULE Spec2Model ----
(***************************************************************************)
(* A model of the Chord subsystem of src/chord_dht/chord_subsystem.py:     *)
(* the peer handle (ChordNodeReference), the ring node (ChordNode), its     *)
(* three maintenance loops and its request server.                         *)
(*                                                                         *)
(* Python values are modelled by what the interpreter does with them:      *)
(*   - a call either returns a value, Ok(v), or raises, Raise(e);          *)
(*   - str and bytes are different types: an ip is [t, s] with t "str" or  *)
(*     "bytes"; bytes have no encode(), str has no decode();               *)
(*   - int.to_bytes() with no argument produces ONE byte and raises        *)
(*     OverflowError for a value above 255;                                *)
(*   - the name `id` inside a method without a parameter `id` is the       *)
(*     builtin function, which has no attribute to_bytes.                  *)
(***************************************************************************)
EXTENDS Integers, Sequences, FiniteSets, TLC

\* ------------------------------------------------------------------ bounds

\* Width of the digest in bits (160 for SHA-1 in the source, scaled down). It
\* is kept above 8 so that identifiers on both sides of the one-byte limit of
\* int.to_bytes() exist.
ShaBits == 9

\* m, the ring width: the constructor's default is the digest width.
M == ShaBits

RingSize == 2 ^ M

ID == 0 .. (RingSize - 1)

\* int.to_bytes() is called without a length everywhere: length 1, one byte.
ByteLimit == 256

\* The most hops a lookup walk is followed for.
MaxHops == 3

\* ------------------------------------------------------------------ values

None == [none |-> TRUE]

Ok(v) == [ok |-> TRUE, val |-> v]

Raise(e) == [ok |-> FALSE, err |-> e]

Str(s) == [t |-> "str", s |-> s]

Bytes(s) == [t |-> "bytes", s |-> s]

\* One part of a multipart frame: a text payload (n = -1) or an integer
\* payload written big-endian (s = "").
TextPart(s) == [s |-> s, n |-> -1]

IntPart(n) == [s |-> "", n |-> n]

\* ------------------------------------------------------------------ nodes

Node == {"A", "B", "C"}

ip_of(n) == CASE n = "A" -> "ipA" [] n = "B" -> "ipB" [] n = "C" -> "ipC"

\* B runs on the default port 8001; A and C on ports that fit in one byte.
port_of(n) == CASE n = "A" -> 80 [] n = "B" -> 8001 [] n = "C" -> 200

Ips == {"ipA", "ipB", "ipC"}

PortSample == {0, 80, 200, 255, 256, 8001, 65535}

\* ------------------------------------------------------- identifier space

IpIdx(s) == CASE s = "ipA" -> 0 [] s = "ipB" -> 1 [] s = "ipC" -> 2

PortIdx(p) ==
    CASE p = 0 -> 0 [] p = 80 -> 1 [] p = 200 -> 2 [] p = 255 -> 3
      [] p = 256 -> 4 [] p = 8001 -> 5 [] p = 65535 -> 6

\* f"{ip}:{port}": the text of a str ip is the ip, the text of a bytes ip is
\* its repr b'...', a different string.
FormatAddr(ip, port) == <<ip.t, ip.s, port>>

\* SHA-1 as an injective, scattering function of the formatted text (the
\* digest is collision-free for practical purposes).
getShaRepr(data) ==
    LET k == (IpIdx(data[2]) * 2 + (IF data[1] = "str" THEN 0 ELSE 1)) * 7
             + PortIdx(data[3])
    IN  (k * 101 + 7) % (2 ^ ShaBits)

get_id_of_node(ip, port) == getShaRepr(FormatAddr(ip, port))

\* ------------------------------------------------------------ peer handle

\* ChordNodeReference.__init__: ip and port are stored as given, the id is
\* derived from them.
ChordNodeReference(ip, port) ==
    [ip |-> ip, port |-> port, id |-> get_id_of_node(ip, port)]

\* self.ref of node n.
Ref(n) == ChordNodeReference(Str(ip_of(n)), port_of(n))

\* int.to_bytes(): one byte, big-endian.
to_bytes(n) ==
    IF n >= 0 /\ n < ByteLimit THEN Ok(IntPart(n)) ELSE Raise("OverflowError")

\* int.from_bytes(part): any length is accepted; b"" is 0.
from_bytes(part) == IF part.n >= 0 THEN part.n ELSE 0

\* str.encode(): bytes have no such method.
encode(ip) ==
    IF ip.t = "str" THEN Ok(TextPart(ip.s)) ELSE Raise("AttributeError")

\* bytes.decode()
decode(part) == Str(part.s)

to_zmq_multipart(h) ==
    LET e == encode(h.ip)
        p == to_bytes(h.port)
    IN  IF ~e.ok THEN e
        ELSE IF ~p.ok THEN p
        ELSE Ok(<<e.val, p.val>>)

\* What send_data returns when nothing was received (None). A received frame
\* has at least one part, so that the empty sequence stands for None; the
\* server sends nothing for a response that is None.
NoResponse == <<>>

\* The client-side parsers (find_successor, find_predecessor,
\* closest_preceding_finger of the handle): none for no answer, else a new
\* handle from the decoded ip and the port read back from its bytes.
ParseResponse(response) ==
    IF response = NoResponse THEN Ok(None)
    ELSE IF Len(response) < 2 THEN Raise("IndexError")
    ELSE Ok(ChordNodeReference(decode(response[1]), from_bytes(response[2])))

\* The NOTIFY branch of the server: the ip part is used as received (bytes),
\* the port is read back from its bytes.
ParseNotifyBody(body) == ChordNodeReference(Bytes(body[1].s), from_bytes(body[2]))

\* The properties successor and predecessor of the handle build their request
\* with id.to_bytes(), where id is the builtin function: AttributeError,
\* before anything is sent.
RefSuccessor(h) == Raise("AttributeError")

RefPredecessor(h) == Raise("AttributeError")

\* ------------------------------------------------------------- ring logic

\* ChordNode._in_between: Python's chained comparison on plain integers.
_in_between(k, start, end) == start < k /\ k <= end


\* A world is the ring state of every node, [successor, predecessor, finger,
\* alive]: the lookups below read it, so that they can be applied to the
\* running system and to a ring given as input.

SelfId(n) == get_id_of_node(Str(ip_of(n)), port_of(n))

\* The node listening at the address of a handle, if any. A handle whose ip
\* is bytes formats to tcp://b'...':port, which connect() rejects.
NodeAt(h) ==
    IF h.ip.t = "str" /\ \E n \in Node : ip_of(n) = h.ip.s /\ port_of(n) = h.port
    THEN {n \in Node : ip_of(n) = h.ip.s /\ port_of(n) = h.port}
    ELSE {}

\* ChordNode.closest_preceding_finger: the first finger, from index m-1 down
\* to 0, that is set and passes _in_between(finger.id, self.id, id); the loop
\* ends without a return (None) when there is none. finger[i] of the source is
\* w.finger[n][i + 1].
closest_preceding_finger(w, n, id) ==
    LET hits == {i \in 0 .. (M - 1) :
                    /\ w.finger[n][i + 1] # None
                    /\ _in_between(w.finger[n][i + 1].id, SelfId(n), id)}
    IN  IF hits = {} THEN None
        ELSE w.finger[n][(CHOOSE i \in hits : \A j \in hits : j <= i) + 1]

\* The CLOSEST_PRECEDING_FINGER branch of the server of node n: the response
\* parts, or the exception the branch raises (no finger: None has no
\* to_zmq_multipart; a finger that cannot be encoded).
ServeClosestPF(w, n, id) ==
    LET f == closest_preceding_finger(w, n, id)
    IN  IF f = None THEN Raise("AttributeError") ELSE to_zmq_multipart(f)

\* ChordNodeReference.closest_preceding_finger: the request is built first
\* (id.to_bytes() may raise); send_data turns a failed connect and a timeout
\* into None. A live peer answers from its state as it is now.
ref_closest_preceding_finger(w, h, id) ==
    LET b == to_bytes(id)
        t == NodeAt(h)
    IN  IF ~b.ok THEN b
        ELSE IF t = {} THEN Ok(None)
        ELSE LET q == CHOOSE n \in t : TRUE
                 r == ServeClosestPF(w, q, from_bytes(b.val))
             IN  IF ~w.alive[q] \/ ~r.ok THEN Ok(None) ELSE ParseResponse(r.val)

\* The loop of ChordNode.find_predecessor from the node `cur`: the local node
\* itself (local) or a handle. `node.id < id <= node.successor.id` reads
\* node.successor only when node.id < id; on a handle that read is the
\* property RefSuccessor, on the local node it is the field, which may be None.
RECURSIVE FindPredecessorWalk(_, _, _, _, _, _)
FindPredecessorWalk(w, n, id, cur, local, fuel) ==
    LET succ == IF local
                THEN (IF w.successor[n] = None THEN Raise("AttributeError")
                      ELSE Ok(w.successor[n]))
                ELSE RefSuccessor(cur)
        new_node == IF local THEN Ok(closest_preceding_finger(w, n, id))
                    ELSE ref_closest_preceding_finger(w, cur, id)
    IN  IF cur.id < id /\ ~succ.ok THEN succ
        ELSE IF cur.id < id /\ id <= succ.val.id
             THEN Ok(ChordNodeReference(cur.ip, cur.port))
        ELSE IF ~new_node.ok THEN new_node
        ELSE IF new_node.val = None THEN Raise("AttributeError")
        ELSE IF cur.id = new_node.val.id
             THEN Ok(ChordNodeReference(cur.ip, cur.port))
        ELSE IF fuel = 0 THEN Raise("NoTermination")
        ELSE FindPredecessorWalk(w, n, id, new_node.val, FALSE, fuel - 1)

\* ChordNode.find_predecessor
find_predecessor(w, n, id) == FindPredecessorWalk(w, n, id, Ref(n), TRUE, MaxHops)

\* The start of finger i of a node of ring width m, as fix_fingers computes
\* it: (self.id + 2**i) % (2**self.m).
finger_start(id, i, m) == (id + 2 ^ i) % (2 ^ m)

\* The lookup answers with the handle of the third node, whatever is asked.
find_successor_fixed(w, n, id) == Ok(Ref("C"))

\* The lookup returns none, as for a peer that gave no answer.
find_successor_absent(w, n, id) == Ok(None)

\* ChordNode.find_successor: find_predecessor returns a handle, whose
\* successor is the property RefSuccessor.
find_successor(w, n, id) ==
    LET node == find_predecessor(w, n, id)
    IN  IF ~node.ok THEN node ELSE RefSuccessor(node.val)

\* ChordNode.notify: the predecessor after the call.
notify(w, n, node) ==
    IF w.predecessor[n] = None
       \/ _in_between(node.id, w.predecessor[n].id, SelfId(n))
    THEN node
    ELSE w.predecessor[n]


\* ---------------------------------------------------------- wire protocol

CHORD_SUBSYSTEM == "Chord"

FIND_SUCCESSOR == "Find_S"

FIND_PREDECESSOR == "Find_P"

GET_SUCCESSOR == "Get_S"

GET_PREDECESSOR == "Get_P"

NOTIFY == "Notify"

PING == "Ping"

CLOSEST_PRECEDING_FINGER == "Closest_PF"

\* The subsystem part is not tested.
SubsystemOk_unchecked(message) == TRUE

\* The second assertion of start_server: the subsystem part is b"Chord".
SubsystemOk(message) == message[2].s = CHORD_SUBSYSTEM

\* Handling a request resets the predecessor.
Kept_cleared(w, n) == None

\* The predecessor of node n after a branch of start_server other than
\* NOTIFY, and after a request that is dropped: these assign no field of the
\* node, and the lookups they call (find_successor, find_predecessor,
\* closest_preceding_finger) only read.
Kept(w, n) == w.predecessor[n]

\* One pass of the body of ChordNode.start_server over a received message
\* [client_address, subsystem, operation, *body]: the exception it ends with
\* ("none" if none), the response parts (NoResponse: nothing is sent) and the
\* predecessor of the node afterwards.
ServerDispatch(w, n, message) ==
    LET body == SubSeq(message, 4, Len(message))
        Drop(e) == [err |-> e, response |-> NoResponse,
                    predecessor |-> Kept(w, n)]
        Reply(parts) == [err |-> "none", response |-> parts,
                         predecessor |-> Kept(w, n)]
        Encoded(h) == IF h = None THEN Drop("AttributeError")
                      ELSE IF to_zmq_multipart(h).ok
                           THEN Reply(to_zmq_multipart(h).val)
                           ELSE Drop(to_zmq_multipart(h).err)
        Looked(r) == IF r.ok THEN Encoded(r.val) ELSE Drop(r.err)
    IN  IF Len(message) < 3 THEN Drop("AssertionError")
        ELSE IF ~SubsystemOk(message) THEN Drop("AssertionError")
        ELSE CASE message[3].s = FIND_SUCCESSOR ->
                    IF body = <<>> THEN Drop("IndexError")
                    ELSE Looked(find_successor(w, n, from_bytes(body[1])))
               [] message[3].s = FIND_PREDECESSOR ->
                    IF body = <<>> THEN Drop("IndexError")
                    ELSE Looked(find_predecessor(w, n, from_bytes(body[1])))
               [] message[3].s = GET_SUCCESSOR ->
                    Encoded(IF w.successor[n] # None THEN w.successor[n] ELSE Ref(n))
               [] message[3].s = GET_PREDECESSOR ->
                    Encoded(IF w.predecessor[n] # None THEN w.predecessor[n]
                            ELSE Ref(n))
               [] message[3].s = NOTIFY ->
                    IF Len(body) # 2 THEN Drop("AssertionError")
                    ELSE [err |-> "none", response |-> NoResponse,
                          predecessor |-> notify(w, n, ParseNotifyBody(body))]
               [] message[3].s = PING -> Reply(<<TextPart("")>>)
               [] message[3].s = CLOSEST_PRECEDING_FINGER ->
                    IF body = <<>> THEN Drop("IndexError")
                    ELSE IF ServeClosestPF(w, n, from_bytes(body[1])).ok
                         THEN Reply(ServeClosestPF(w, n, from_bytes(body[1])).val)
                         ELSE Drop(ServeClosestPF(w, n, from_bytes(body[1])).err)
               [] OTHER -> Drop("Exception")


\* ------------------------------------------------ peer handle, the calls

\* The identity of the DEALER socket of a call made on given inputs.
Caller == [s |-> "caller", n |-> -4]

\* The socket is closed only after a reply.
socket_close_on_reply(path) == IF path = "reply" THEN "closed" ELSE "open"

\* socket.close(0) follows the try statement of send_data, whose except
\* clause catches every Exception: it is reached on each path (a reply was
\* received, the poll timed out, connect or send raised).
socket_close(path) == "closed"

\* ChordNodeReference.send_data in the world w. One DEALER socket is created.
\* connect raises for an address that is no host name (tcp://b'...':port): the
\* exception is caught and nothing was sent. Otherwise the one frame
\* [Chord] + data is sent; the node at the address, if it runs, handles it,
\* and its response, if it sends one, is received before the timeout.
send_data(w, h, data) ==
    LET connected == h.ip.t = "str"
        t == NodeAt(h)
        q == CHOOSE n \in t : TRUE
        message == <<Caller, TextPart(CHORD_SUBSYSTEM)>> \o data
        response == IF connected /\ t # {} /\ w.alive[q]
                    THEN ServerDispatch(w, q, message).response
                    ELSE NoResponse
        path == IF ~connected THEN "error"
                ELSE IF response = NoResponse THEN "timeout" ELSE "reply"
    IN  [response |-> response, path |-> path, opened |-> 1,
         frames |-> IF connected THEN 1 ELSE 0, socket |-> socket_close(path)]

\* The request a call of the handle builds before it enters send_data, or the
\* exception building it raises. find_successor, find_predecessor and
\* closest_preceding_finger encode their argument with id.to_bytes(); the
\* properties successor and predecessor evaluate id.to_bytes() on the builtin
\* function id; notify encodes the handle it is given.
RpcRequest(op, h, id, node) ==
    CASE op = "find_successor" ->
            IF to_bytes(id).ok
            THEN Ok(<<TextPart(FIND_SUCCESSOR), to_bytes(id).val>>) ELSE to_bytes(id)
      [] op = "find_predecessor" ->
            IF to_bytes(id).ok
            THEN Ok(<<TextPart(FIND_PREDECESSOR), to_bytes(id).val>>) ELSE to_bytes(id)
      [] op = "closest_preceding_finger" ->
            IF to_bytes(id).ok
            THEN Ok(<<TextPart(CLOSEST_PRECEDING_FINGER), to_bytes(id).val>>)
            ELSE to_bytes(id)
      [] op = "successor" -> RefSuccessor(h)
      [] op = "predecessor" -> RefPredecessor(h)
      [] op = "notify" ->
            IF to_zmq_multipart(node).ok
            THEN Ok(<<TextPart(NOTIFY)>> \o to_zmq_multipart(node).val)
            ELSE to_zmq_multipart(node)
      [] op = "ping" -> Ok(<<TextPart(PING)>>)

\* ping is True only for a response whose first part is not empty.
PingResult_nonempty(response) == response # NoResponse /\ response[1].s # ""

\* ChordNodeReference.ping: `response is not None`.
PingResult(response) == response # NoResponse

\* What a call of the handle returns for the response of send_data: ping a
\* boolean, notify nothing, the others the handle they parse (None for None).
RpcResult(op, response) ==
    CASE op = "ping" -> Ok(PingResult(response))
      [] op = "notify" -> Ok(None)
      [] OTHER -> ParseResponse(response)

\* The seven calls a handle h offers; id and node are the arguments of those
\* that take one.
HandleRpc(w, op, h, id, node) ==
    IF ~RpcRequest(op, h, id, node).ok THEN RpcRequest(op, h, id, node)
    ELSE RpcResult(op, send_data(w, h, RpcRequest(op, h, id, node).val).response)

\* ------------------------------------------- service discovery, the values

\* The peers that announce themselves, by the uuid of their announcements.
Uuid == {"u1", "u2"}

\* The names of the services announced.
Service == {"storage", "dns"}

JOINED == "JOINED"

LEFT == "LEFT"

\* DiscoveryAgent.expiration_time, in seconds: dt.timedelta(seconds=3).
ExpirationTime == 3

\* The clock of the agent is followed up to this time.
MaxTime == 6

\* The most events followed on the pipe of the agent.
MaxEvents == 4

\* PeerRegistry.max_peers_per_service (10 by default, between 1 and 49).
max_peers_per_service == 2

\* The largest max_amount get_peers is called with.
MaxAmount == 3

\* Peer.is_expired: datetime.now(timezone.utc) > self.expiration_time.
is_expired(peer, time) == time > peer.expiration_time

\* Peer.update_expiration_time
update_expiration_time(peer, expiration_time) ==
    [peer EXCEPT !.expiration_time = expiration_time]

\* PeerRegistry.add_peer on the dictionary reg: the peer is appended to the
\* list of its service, and the oldest entry is popped when the list has
\* grown beyond max_peers_per_service.
add_peer(reg, peer) ==
    LET res == Append(reg[peer.service], peer)
    IN  [reg EXCEPT ![peer.service] =
            IF Len(res) > max_peers_per_service THEN Tail(res) ELSE res]

\* list.remove(peer): the first entry equal to the peer (Peer.__eq__ compares
\* the uuid) is taken out.
ListRemove(list, peer) ==
    LET at == CHOOSE i \in 1 .. Len(list) :
                /\ list[i].uuid = peer.uuid
                /\ \A j \in 1 .. (i - 1) : list[j].uuid # peer.uuid
    IN  SubSeq(list, 1, at - 1) \o SubSeq(list, at + 1, Len(list))

\* PeerRegistry.remove_peer: the ValueError of list.remove for a peer that is
\* not in the list is raised again, the dictionary is as before.
remove_peer(reg, peer) ==
    IF \E i \in 1 .. Len(reg[peer.service]) : reg[peer.service][i].uuid = peer.uuid
    THEN Ok([reg EXCEPT ![peer.service] = ListRemove(@, peer)])
    ELSE Raise("ValueError")

\* PeerRegistry.get_peers: result[-max_amount:]. A slice from -k takes the
\* last k entries, all of them when there are fewer; -0 is 0, and the slice
\* from 0 is the whole list.
get_peers(reg, service_name, max_amount) ==
    LET result == reg[service_name]
    IN  IF max_amount = 0 \/ max_amount >= Len(result) THEN result
        ELSE SubSeq(result, Len(result) - max_amount + 1, Len(result))

\* ------------------------------------------------------------------ state

\* Calls by the hosting system (join, notify) and request frames sent by
\* outside clients, in all.
MaxCalls == 2

\* The nodes whose process runs from the start of Spec. Nothing listens at
\* the address of the third: a peer that does not answer.
Running == {"A", "B"}

VARIABLES
    successor,      \* ChordNode.successor of each node: a handle or None
    predecessor,    \* ChordNode.predecessor of each node: a handle or None
    finger,         \* ChordNode.finger of each node: m handles
    alive,          \* whether the process of the node runs
    inbox,          \* the frames waiting at the server socket of each node
    chk,            \* check_predecessor of each node: idle, or waiting for a ping
    jn,             \* a call of join on each node: idle, or waiting for its lookup
    ffIdx,          \* fix_fingers of each node: the index i of the sweep
    joinLog,        \* the calls of join made so far, <<caller, peer>>
    envCount,       \* the frames outside clients have sent so far
    apiCount,       \* the calls of notify the hosting system has made so far
    beat,           \* the parity of the loop iterations begun so far
    probe,          \* the last call of an operation on given inputs, and its result
    threads,        \* the four threads of each node: "running" or "ended"
    stopped,        \* whether stop() has been called on each node
    server_socket,  \* the socket handed to each node: "open" or "closed"
    handled,        \* the last message a server handled, and what it sent for it
    peers,          \* DiscoveryAgent.peers: the entries, in the order of insertion
    pipe,           \* the events the discovery agent has sent on its pipe
    now,            \* the clock of the discovery agent (UTC), in seconds
    services_and_peers  \* PeerRegistry.services_and_peers: the list of each service

\* The state of the service discovery: the agent and the registry.
Discovery == <<peers, pipe, now, services_and_peers>>

\* The state of the Chord nodes, but for the record of the last call.
ChordState == <<successor, predecessor, finger, alive, inbox, chk, jn, ffIdx,
                joinLog, envCount, apiCount, beat, threads, stopped,
                server_socket, handled>>

vars == <<successor, predecessor, finger, alive, inbox, chk, jn, ffIdx,
          joinLog, envCount, apiCount, beat, probe,
                   threads, stopped, server_socket, handled, Discovery>>

World == [successor |-> successor, predecessor |-> predecessor,
          finger |-> finger, alive |-> alive]

\* The identity of the DEALER socket a call opens: one per calling thread at a
\* time (n: -2 check_predecessor, -3 join), or an outside client.
ChkClient(n) == [s |-> n, n |-> -2]

JoinClient(n) == [s |-> n, n |-> -3]

\* Every socket of an outside client has an identity of its own: the k-th
\* frame sent bears the k-th identity.
EnvClient(k) == [s |-> "client", n |-> 0 - (10 + k)]

QueryIds == {SelfId("A") + 1, RingSize - 1}

\* What outside clients send: every operation, well formed, and the protocol
\* violations (two parts only, another subsystem, an unknown operation, NOTIFY
\* with one argument, a lookup without its argument).
EnvFrames(c) ==
    {<<c, TextPart(CHORD_SUBSYSTEM), TextPart(op), IntPart(x)>> :
        op \in {FIND_SUCCESSOR, FIND_PREDECESSOR, CLOSEST_PRECEDING_FINGER},
        x \in QueryIds}
    \cup {<<c, TextPart(CHORD_SUBSYSTEM), TextPart(op)>> :
        op \in {GET_SUCCESSOR, GET_PREDECESSOR, PING, "Store_K", FIND_SUCCESSOR}}
    \cup {<<c, TextPart(CHORD_SUBSYSTEM), TextPart(NOTIFY),
            TextPart(ip_of(m)), IntPart(port_of(m))>> : m \in Node}
    \cup {<<c, TextPart(CHORD_SUBSYSTEM), TextPart(NOTIFY), TextPart(ip_of("A"))>>,
          <<c, TextPart(CHORD_SUBSYSTEM)>>,
          <<c, TextPart("Files"), TextPart(PING)>>}

Calls ==
    Len(joinLog) + envCount + apiCount + Cardinality({n \in Node : stopped[n]})

\* The threads ChordNode.__init__ starts.
Loops == {"stabilize", "fix_fingers", "start_server", "check_predecessor"}

Idle == [pc |-> "idle", target |-> "none", reply |-> NoResponse]

\* ChordNode.__init__ of every node; the processes of the nodes of `up` run.
Constructed(up) ==
    /\ successor = [n \in Node |-> Ref(n)]
    /\ predecessor = [n \in Node |-> None]
    /\ finger = [n \in Node |-> [i \in 1 .. M |-> Ref(n)]]
    /\ alive = [n \in Node |-> n \in up]
    /\ inbox = [n \in Node |-> <<>>]
    /\ chk = [n \in Node |-> Idle]
    /\ jn = [n \in Node |-> Idle]
    /\ ffIdx = [n \in Node |-> M - 1]
    /\ joinLog = <<>>
    /\ envCount = 0
    /\ apiCount = 0
    /\ beat = 0
    /\ probe = [op |-> "none"]
    /\ threads = [n \in Node |-> [l \in Loops |-> "running"]]
    /\ stopped = [n \in Node |-> FALSE]
    /\ server_socket = [n \in Node |-> "open"]
    /\ handled = [by |-> "none"]
    /\ peers = <<>>
    /\ pipe = <<>>
    /\ now = 0
    /\ services_and_peers = [s \in Service |-> <<>>]

Init == Constructed(Running)

\* Whether a frame of the client is waiting at node t.
Pending(t, client) == \E i \in 1 .. Len(inbox[t]) : inbox[t][i][1] = client

\* A call waiting on node t gets no answer any more: t does not run, or the
\* server of t has taken the request and sent nothing. (The timeout of 2500 ms
\* is long against the time a live server takes to reach a queued request.)
TimedOut(call, client) ==
    /\ call.reply = NoResponse
    /\ \/ call.target = "none"
       \/ ~alive[call.target]
       \/ ~Pending(call.target, client)

\* The loop ends with the first exception an iteration raises.
NextTick_ends(failed) == IF failed THEN "ended" ELSE "running"

\* The server ends with the first exception the handling of a message raises.
NextReceive_ends(failed) == IF failed THEN "ended" ELSE "running"

\* A maintenance loop (stabilize, fix_fingers, check_predecessor) after an
\* iteration: `while True` around a try that catches Exception, then a sleep.
\* Neither an exception raised in the iteration (failed) nor stop() ends it.
NextTick(failed) == "running"

\* start_server after a message: `while True` around a try that catches
\* Exception; the loop goes back to recv_multipart.
NextReceive(failed) == "running"

\* join without the test of line 216.
JoinsItself_never(n, node) == FALSE

\* join(node) returns at once when the handle given has the id of the node.
JoinsItself(n, node) == node.id = SelfId(n)

\* A response counts only when one of its parts is not empty.
Truthy_payload(response) ==
    response # NoResponse /\ \E i \in 1 .. Len(response) : response[i] # TextPart("")

\* `if response:` of start_server: None is false, a list with at least one
\* part is true, whatever the parts are ([b""] is).
Truthy(response) == response # NoResponse

\* The response goes to the client of the message handled before.
ResponseFrames_previous(message, response) ==
    IF response # NoResponse
    THEN << <<IF handled.by # "none" THEN handled.message[1] ELSE message[1]>>
            \o response >>
    ELSE <<>>

\* What start_server sends for a message: nothing when the response is None,
\* else one frame, [client_address] + response.
ResponseFrames(message, response) ==
    IF Truthy(response) THEN << <<message[1]>> \o response >> ELSE <<>>

\* The server takes the next request off the socket with the one it handles.
recv_multipart_batch(queue) ==
    [message |-> Head(queue),
     rest |-> IF Len(queue) >= 2 THEN Tail(Tail(queue)) ELSE Tail(queue)]

\* self.server_socket.recv_multipart() at the top of the loop of
\* start_server, the only place the server socket is read: the oldest waiting
\* frame is taken, the others stay queued until the loop comes round again.
recv_multipart(queue) == [message |-> Head(queue), rest |-> Tail(queue)]

\* A predecessor that does not answer is replaced by the handle of the node.
check_predecessor_ref(n, ping) ==
    IF predecessor[n] # None /\ ping THEN predecessor[n] ELSE Ref(n)

\* The assignment of ChordNode.check_predecessor: the predecessor as it is
\* after the ping when there is one and ping() was True, else None.
check_predecessor(n, ping) ==
    IF predecessor[n] # None /\ ping THEN predecessor[n] ELSE None

\* The loops of a node take turns: none runs while a ping is waited for.
CanRun_in_turn(n, loop) == threads[n][loop] = "running" /\ chk[n].pc = "idle"

\* Whether a loop of node n can take its next step. Each loop is a thread of
\* its own (ChordNode.__init__), there is no lock, and every call of
\* send_data polls on a socket it has created itself: a loop depends on its
\* own thread alone.
CanRun(n, loop) == threads[n][loop] = "running"

\* stop closes the socket the node was given.
stop_closing(n) == [threads |-> threads[n], server_socket |-> "closed"]

\* ChordNode.stop: its body is `pass`. The threads and the server socket of
\* the node after the call.
stop(n) == [threads |-> threads[n], server_socket |-> server_socket[n]]


\* ---------------------------------------------------------------- actions

\* The hosting system calls n.join(Ref(m)). The request of the lookup is
\* built from self.id before anything is sent: when to_bytes raises, join
\* ends there, with the predecessor already cleared.
JoinCall(n, m) ==
    /\ alive[n]
    /\ jn[n].pc = "idle"
    /\ Calls < MaxCalls
    /\ joinLog' = Append(joinLog, <<n, m>>)
    /\ IF JoinsItself(n, Ref(m))
       THEN UNCHANGED <<predecessor, jn, inbox>>
       ELSE /\ predecessor' = [predecessor EXCEPT ![n] = None]
            /\ IF to_bytes(SelfId(n)).ok
               THEN /\ jn' = [jn EXCEPT ![n] =
                                [pc |-> "wait", target |-> m, reply |-> NoResponse]]
                    /\ inbox' = IF alive[m]
                                THEN [inbox EXCEPT ![m] = Append(@,
                                        <<JoinClient(n), TextPart(CHORD_SUBSYSTEM),
                                          TextPart(FIND_SUCCESSOR),
                                          to_bytes(SelfId(n)).val>>)]
                                ELSE inbox
               ELSE UNCHANGED <<jn, inbox>>
    /\ UNCHANGED <<successor, finger, alive, chk, ffIdx, envCount, apiCount, beat, probe, Discovery,
                   threads, stopped, server_socket, handled>>

\* The lookup of join returns (an answer, or None after the timeout) and join
\* assigns it to self.successor.
JoinReturn(n) ==
    /\ alive[n]
    /\ jn[n].pc = "wait"
    /\ jn[n].reply # NoResponse \/ TimedOut(jn[n], JoinClient(n))
    /\ successor' = IF ParseResponse(jn[n].reply).ok
                    THEN [successor EXCEPT ![n] = ParseResponse(jn[n].reply).val]
                    ELSE successor
    /\ jn' = [jn EXCEPT ![n] = Idle]
    /\ UNCHANGED <<predecessor, finger, alive, inbox, chk, ffIdx, joinLog,
                   envCount, apiCount, beat, probe, Discovery,
                   threads, stopped, server_socket, handled>>

\* One iteration of ChordNode.stabilize. self.successor.predecessor is the
\* property of the handle (of None: AttributeError); the exception ends the
\* iteration.
Stabilize(n) ==
    /\ alive[n]
    /\ CanRun(n, "stabilize")
    /\ LET pred == IF successor[n] = None THEN Raise("AttributeError")
                   ELSE RefPredecessor(successor[n])
       IN  /\ predecessor' =
               IF /\ pred.ok
                  /\ pred.val # None
                  /\ SelfId(n) < pred.val.id
                  /\ pred.val.id <= successor[n].id
               THEN [predecessor EXCEPT ![n] = pred.val]
               ELSE predecessor
           /\ threads' = [threads EXCEPT ![n]["stabilize"] =
                                NextTick(~pred.ok \/ pred.val = None)]
    /\ beat' = 1 - beat
    /\ UNCHANGED <<successor, finger, alive, inbox, chk, jn, ffIdx, joinLog,
                   envCount, apiCount, probe, Discovery, stopped, server_socket, handled>>

\* One entry of a sweep of ChordNode.fix_fingers: finger[i] for the index i
\* the sweep is at. An exception ends the sweep; the next one starts at m-1.
FixFingers(n) ==
    /\ alive[n]
    /\ CanRun(n, "fix_fingers")
    /\ LET i == ffIdx[n]
           start == finger_start(SelfId(n), i, M)
           r == find_successor(World, n, start)
       IN  /\ IF r.ok
              THEN /\ finger' = [finger EXCEPT ![n][i + 1] = r.val]
                   /\ ffIdx' = [ffIdx EXCEPT ![n] = IF i = 0 THEN M - 1 ELSE i - 1]
              ELSE /\ finger' = finger
                   /\ ffIdx' = [ffIdx EXCEPT ![n] = M - 1]
           /\ threads' = [threads EXCEPT ![n]["fix_fingers"] = NextTick(~r.ok)]
    /\ beat' = 1 - beat
    /\ UNCHANGED <<successor, predecessor, alive, inbox, chk, jn, joinLog,
                   envCount, apiCount, probe, Discovery, stopped, server_socket, handled>>

\* ChordNode.check_predecessor, up to the wait for the answer of the ping.
\* No predecessor: None is assigned. A predecessor whose address cannot be
\* connected to: send_data returns None at once, ping is False, None is
\* assigned. Otherwise the PING is on its way.
CheckPredecessorPing(n) ==
    /\ alive[n]
    /\ CanRun(n, "check_predecessor")
    /\ chk[n].pc = "idle"
    /\ IF predecessor[n] = None \/ NodeAt(predecessor[n]) = {}
       THEN /\ predecessor' = [predecessor EXCEPT ![n] = check_predecessor(n, FALSE)]
            /\ UNCHANGED <<chk, inbox>>
       ELSE LET t == CHOOSE x \in NodeAt(predecessor[n]) : TRUE
            IN  /\ chk' = [chk EXCEPT ![n] =
                             [pc |-> "wait", target |-> t, reply |-> NoResponse]]
                /\ inbox' = IF alive[t]
                            THEN [inbox EXCEPT ![t] = Append(@,
                                    <<ChkClient(n), TextPart(CHORD_SUBSYSTEM),
                                      TextPart(PING)>>)]
                            ELSE inbox
                /\ UNCHANGED predecessor
    /\ threads' = [threads EXCEPT ![n]["check_predecessor"] = NextTick(FALSE)]
    /\ beat' = 1 - beat
    /\ UNCHANGED <<successor, finger, alive, jn, ffIdx, joinLog, envCount,
                   apiCount, probe, Discovery, stopped, server_socket, handled>>

\* ChordNode.check_predecessor, from the return of ping: the predecessor as it
\* is now is kept when ping is True, None is assigned when it is False.
CheckPredecessorDone(n) ==
    /\ alive[n]
    /\ chk[n].pc = "wait"
    /\ chk[n].reply # NoResponse \/ TimedOut(chk[n], ChkClient(n))
    /\ predecessor' = [predecessor EXCEPT ![n] =
                            check_predecessor(n, PingResult(chk[n].reply))]
    /\ chk' = [chk EXCEPT ![n] = Idle]
    /\ threads' = [threads EXCEPT ![n]["check_predecessor"] = NextTick(FALSE)]
    /\ UNCHANGED <<successor, finger, alive, inbox, jn, ffIdx, joinLog,
                   envCount, apiCount, beat, probe, Discovery, stopped, server_socket, handled>>

\* The response [client_address] + response reaches the call that waits on
\* the socket of that identity.
Delivered(call, client, frames) ==
    IF frames # <<>> /\ frames[1][1] = client /\ call.pc = "wait"
    THEN [call EXCEPT !.reply = Tail(frames[1])]
    ELSE call

\* One iteration of ChordNode.start_server: the oldest waiting frame is
\* received and handled, and the response, if any, is sent to its first part.
Serve(n) ==
    /\ alive[n]
    /\ CanRun(n, "start_server")
    /\ inbox[n] # <<>>
    /\ LET message == recv_multipart(inbox[n]).message
           d == ServerDispatch(World, n, message)
           frames == ResponseFrames(message, d.response)
       IN  /\ predecessor' = [predecessor EXCEPT ![n] = d.predecessor]
           /\ chk' = [x \in Node |-> Delivered(chk[x], ChkClient(x), frames)]
           /\ jn' = [x \in Node |-> Delivered(jn[x], JoinClient(x), frames)]
           /\ handled' = [by |-> n, message |-> message, err |-> d.err,
                          sent |-> frames]
           /\ threads' = [threads EXCEPT ![n]["start_server"] =
                                NextReceive(d.err # "none")]
    /\ inbox' = [inbox EXCEPT ![n] = recv_multipart(inbox[n]).rest]
    /\ UNCHANGED <<successor, finger, alive, ffIdx, joinLog, envCount, apiCount,
                   beat, probe, Discovery, stopped, server_socket>>

\* An outside client sends a frame to node n.
EnvSend(n, frame) ==
    /\ alive[n]
    /\ Calls < MaxCalls
    /\ inbox' = [inbox EXCEPT ![n] = Append(@, frame)]
    /\ envCount' = envCount + 1
    /\ UNCHANGED <<successor, predecessor, finger, alive, chk, jn, ffIdx,
                   joinLog, apiCount, beat, probe, Discovery,
                   threads, stopped, server_socket, handled>>

\* The hosting system calls n.notify(Ref(m)).
ApiNotify(n, m) ==
    /\ alive[n]
    /\ Calls < MaxCalls
    /\ predecessor' = [predecessor EXCEPT ![n] = notify(World, n, Ref(m))]
    /\ apiCount' = apiCount + 1
    /\ UNCHANGED <<successor, finger, alive, inbox, chk, jn, ffIdx, joinLog,
                   envCount, beat, probe, Discovery,
                   threads, stopped, server_socket, handled>>

\* The hosting system calls n.stop().
Stop(n) ==
    /\ alive[n]
    /\ Calls < MaxCalls
    /\ stopped' = [stopped EXCEPT ![n] = TRUE]
    /\ threads' = [threads EXCEPT ![n] = stop(n).threads]
    /\ server_socket' = [server_socket EXCEPT ![n] = stop(n).server_socket]
    /\ UNCHANGED <<successor, predecessor, finger, alive, inbox, chk, jn, ffIdx,
                   joinLog, envCount, apiCount, beat, probe, Discovery, handled>>

Next ==
    \/ \E n \in Node, m \in Node : JoinCall(n, m)
    \/ \E n \in Node : JoinReturn(n)
    \/ \E n \in Node : Stabilize(n)
    \/ \E n \in Node : FixFingers(n)
    \/ \E n \in Node : CheckPredecessorPing(n)
    \/ \E n \in Node : CheckPredecessorDone(n)
    \/ \E n \in Node : Serve(n)
    \/ \E n \in Node, frame \in EnvFrames(EnvClient(envCount)) : EnvSend(n, frame)
    \/ \E n \in Node, m \in Node : ApiNotify(n, m)
    \/ \E n \in Node : Stop(n)

Spec == Init /\ [][Next]_vars

\* The three nodes run, and every loop of a running node keeps being
\* scheduled: each is `while True` with a sleep, on a thread of its own, and
\* a call that waits returns at the latest when its timeout expires.
InitRing == Constructed(Node)

Fairness ==
    \A n \in Node :
        /\ WF_vars(Stabilize(n))
        /\ WF_vars(FixFingers(n))
        /\ WF_vars(CheckPredecessorPing(n))
        /\ WF_vars(CheckPredecessorDone(n))
        /\ WF_vars(Serve(n))
        /\ WF_vars(JoinReturn(n))

SpecRing == InitRing /\ [][Next]_vars /\ Fairness

\* The system of Spec, with every loop of the nodes that run kept scheduled.
FairnessRunning ==
    \A n \in Running :
        /\ WF_vars(Stabilize(n))
        /\ WF_vars(FixFingers(n))
        /\ WF_vars(CheckPredecessorPing(n))
        /\ WF_vars(CheckPredecessorDone(n))
        /\ WF_vars(Serve(n))
        /\ WF_vars(JoinReturn(n))

SpecLoops == Init /\ [][Next]_vars /\ FairnessRunning


\* The system with the node in the middle of the ring down: A and C run,
\* nothing listens at the address of B.
InitDown == Constructed(Node \ {"B"})

SpecDown == InitDown /\ [][Next]_vars

\* ------------------------------------------------------- discovery agent

\* A uuid counts as known only while its entry has not expired.
Known_unexpired(u) ==
    \E i \in 1 .. Len(peers) : peers[i].uuid = u /\ ~is_expired(peers[i], now)

\* `peer.uuid in self.peers`
Known(u) == \E i \in 1 .. Len(peers) : peers[i].uuid = u

\* One iteration of check_for_peer_pings for an announcement of the peer u
\* that parses: the expiration of a known uuid is moved to now +
\* expiration_time, an unknown one is entered and JOINED is sent. The
\* iteration has no await between the receipt and the send.
Announce(u) ==
    /\ IF Known(u)
       THEN /\ peers' = [i \in 1 .. Len(peers) |->
                            IF peers[i].uuid = u
                            THEN update_expiration_time(peers[i], now + ExpirationTime)
                            ELSE peers[i]]
            /\ pipe' = pipe
       ELSE /\ Len(pipe) < MaxEvents
            /\ peers' = Append(peers, update_expiration_time(
                                        [uuid |-> u, expiration_time |-> now],
                                        now + ExpirationTime))
            /\ pipe' = Append(pipe, <<JOINED, u>>)
    /\ UNCHANGED <<now, services_and_peers, ChordState, probe>>

\* One run of remove_dead_peers: the entries that are expired are deleted, in
\* the order of the table, and LEFT is sent for each. The run has no await.
RemoveDeadPeers ==
    LET dead(p) == is_expired(p, now)
        live(p) == ~is_expired(p, now)
        gone == SelectSeq(peers, dead)
    IN  /\ Len(pipe) + Len(gone) <= MaxEvents
        /\ peers' = SelectSeq(peers, live)
        /\ pipe' = pipe \o [i \in 1 .. Len(gone) |-> <<LEFT, gone[i].uuid>>]
        /\ UNCHANGED <<now, services_and_peers, ChordState, probe>>

\* A second passes.
Tick ==
    /\ now < MaxTime
    /\ now' = now + 1
    /\ UNCHANGED <<peers, pipe, services_and_peers, ChordState, probe>>

NextAgent ==
    \/ \E u \in Uuid : Announce(u)
    \/ RemoveDeadPeers
    \/ Tick

SpecAgent == Init /\ [][NextAgent]_vars

\* --------------------------------------------------------- peer registry

\* The hosting service calls registry.add_peer(peer).
AddPeer(u, s) ==
    /\ services_and_peers' = add_peer(services_and_peers, [uuid |-> u, service |-> s])
    /\ UNCHANGED <<peers, pipe, now, ChordState, probe>>

\* The hosting service calls registry.remove_peer(peer); a call that raises
\* leaves the registry as it was.
RemovePeer(u, s) ==
    /\ services_and_peers' =
            IF remove_peer(services_and_peers, [uuid |-> u, service |-> s]).ok
            THEN remove_peer(services_and_peers, [uuid |-> u, service |-> s]).val
            ELSE services_and_peers
    /\ UNCHANGED <<peers, pipe, now, ChordState, probe>>

\* The hosting service calls registry.get_peers(service_name, max_amount).
GetPeers(s, k) ==
    /\ probe' = [op |-> "get_peers", service_name |-> s, max_amount |-> k,
                 stored |-> services_and_peers[s],
                 out |-> get_peers(services_and_peers, s, k)]
    /\ UNCHANGED <<ChordState, Discovery>>

NextRegistry ==
    \/ \E u \in Uuid, s \in Service : AddPeer(u, s)
    \/ \E u \in Uuid, s \in Service : RemovePeer(u, s)
    \/ \E s \in Service, k \in 0 .. MaxAmount : GetPeers(s, k)

SpecRegistry == Init /\ [][NextRegistry]_vars

\* ------------------------------------------- operations on given inputs

\* Identifiers around the ends of the ring, the one-byte limit and the nodes.
IdSample ==
    ({0, 1, ByteLimit - 1, ByteLimit, RingSize - 1}
        \cup {SelfId(m) : m \in Node} \cup {SelfId(m) + 1 : m \in Node}) \cap ID

\* The node of G that is the first at or clockwise after x.
RingSuccessorOf(G, x) ==
    LET at == {n \in G : SelfId(n) >= x}
        from == IF at = {} THEN G ELSE at
    IN  CHOOSE n \in from : \A o \in from : SelfId(n) <= SelfId(o)

\* The ring of the two nodes a and b, stabilized and with converged fingers;
\* every other node is as constructed.
StableRing2(a, b) ==
    LET other(n) == IF n = a THEN b ELSE a
    IN  [successor |-> [n \in Node |-> IF n \in {a, b} THEN Ref(other(n)) ELSE Ref(n)],
         predecessor |-> [n \in Node |-> IF n \in {a, b} THEN Ref(other(n)) ELSE None],
         finger |-> [n \in Node |-> [i \in 1 .. M |->
                        IF n \in {a, b}
                        THEN Ref(RingSuccessorOf({a, b},
                                    (SelfId(n) + 2 ^ (i - 1)) % (2 ^ M)))
                        ELSE Ref(n)]],
         alive |-> [n \in Node |-> TRUE]]

\* A finger table of node n: Ref(n) everywhere but at the indices i and j.
FingerTable(n, i, j, h1, h2) ==
    [x \in 1 .. M |-> IF x = i + 1 THEN h1 ELSE IF x = j + 1 THEN h2 ELSE Ref(n)]

FingerSample == {Ref(m) : m \in Node} \cup {None}

\* Each call is made once, on the system as constructed.
Rest == <<successor, predecessor, finger, alive, inbox, chk, jn, ffIdx,
          joinLog, envCount, apiCount, beat, threads, stopped, server_socket,
          handled, Discovery>>

Call_in_between(k, start, end) ==
    /\ probe.op = "none"
    /\ probe' = [op |-> "_in_between", k |-> k, start |-> start, end |-> end,
                 out |-> _in_between(k, start, end)]
    /\ UNCHANGED Rest

Call_closest_preceding_finger(n, i, j, h1, h2, id) ==
    /\ probe.op = "none"
    /\ probe' = [op |-> "closest_preceding_finger", n |-> n, id |-> id,
                 table |-> FingerTable(n, i, j, h1, h2),
                 out |-> closest_preceding_finger(
                            [World EXCEPT !.finger[n] = FingerTable(n, i, j, h1, h2)],
                            n, id)]
    /\ UNCHANGED Rest

\* A handle is encoded, and the two parts are decoded as the client-side
\* parsers and as the NOTIFY branch of the server decode them.
Call_round_trip(ip, port) ==
    /\ probe.op = "none"
    /\ LET h == ChordNodeReference(Str(ip), port)
           enc == to_zmq_multipart(h)
       IN  probe' = [op |-> "round_trip", h |-> h, enc |-> enc,
                     client |-> IF enc.ok THEN ParseResponse(enc.val).val ELSE None,
                     server |-> IF enc.ok THEN ParseNotifyBody(enc.val) ELSE None]
    /\ UNCHANGED Rest

\* a.find_successor(x) in the stabilized ring of a and b.
Call_find_successor(a, b, x) ==
    /\ probe.op = "none"
    /\ a # b
    /\ probe' = [op |-> "find_successor", a |-> a, b |-> b, x |-> x,
                 out |-> find_successor(StableRing2(a, b), a, x)]
    /\ UNCHANGED Rest

\* The handles calls are made on: of a node that runs, of the node that does
\* not, and one whose ip is bytes, as the NOTIFY branch builds them.
HandleSample ==
    {Ref(m) : m \in Node} \cup {ChordNodeReference(Bytes(ip_of("A")), port_of("A"))}

RpcOps == {"find_successor", "find_predecessor", "successor", "predecessor",
           "closest_preceding_finger", "notify", "ping"}

\* A call of a handle: with an id for the calls that take one, with a handle
\* for notify.
Call_rpc(op, h, id, node) ==
    /\ probe.op = "none"
    /\ probe' = [op |-> "rpc", rpc |-> op, h |-> h, id |-> id, node |-> node,
                 out |-> HandleRpc(World, op, h, id, node)]
    /\ UNCHANGED Rest

\* The requests send_data is called with: two a running node answers, one it
\* does not (the lookup raises in the server).
DataSample ==
    {<<TextPart(PING)>>, <<TextPart(GET_SUCCESSOR)>>,
     <<TextPart(FIND_SUCCESSOR), IntPart(0)>>}

Call_send_data(h, data) ==
    /\ probe.op = "none"
    /\ probe' = [op |-> "send_data", h |-> h, data |-> data,
                 out |-> send_data(World, h, data)]
    /\ UNCHANGED Rest

\* The ring widths a node is constructed with: below, at and above the width
\* of the digest.
WidthSample == {ShaBits - 1, ShaBits, ShaBits + 1}

\* ChordNode(context, socket, ip, port, m): the identifiers the node holds
\* and computes, the id of its own handle (every finger at construction)
\* among them.
Call_construct(ip, port, m) ==
    /\ probe.op = "none"
    /\ probe' = [op |-> "construct", ip |-> ip, port |-> port, m |-> m,
                 id |-> get_id_of_node(Str(ip), port),
                 ref |-> ChordNodeReference(Str(ip), port),
                 starts |-> [i \in 0 .. (m - 1) |->
                                finger_start(get_id_of_node(Str(ip), port), i, m)]]
    /\ UNCHANGED Rest

\* One call is made in a behaviour: on the system as constructed.
NextCalls ==
    \/ /\ probe.op = "none"
       /\ \E k \in IdSample, start \in IdSample, end \in IdSample :
            Call_in_between(k, start, end)
    \/ /\ probe.op = "none"
       /\ \E n \in Node, i \in {0, 1, M - 1}, j \in {0, 1, M - 1},
             h1 \in FingerSample, h2 \in FingerSample, id \in IdSample :
            Call_closest_preceding_finger(n, i, j, h1, h2, id)
    \/ /\ probe.op = "none"
       /\ \E ip \in Ips, port \in PortSample : Call_round_trip(ip, port)
    \/ /\ probe.op = "none"
       /\ \E a \in Node, b \in Node, x \in IdSample : Call_find_successor(a, b, x)
    \/ /\ probe.op = "none"
       /\ \E op \in RpcOps, h \in HandleSample, id \in IdSample, node \in HandleSample :
            /\ op \in {"find_successor", "find_predecessor",
                       "closest_preceding_finger"} \/ id = 0
            /\ op = "notify" \/ node = h
            /\ Call_rpc(op, h, id, node)
    \/ /\ probe.op = "none"
       /\ \E h \in HandleSample, data \in DataSample : Call_send_data(h, data)
    \/ /\ probe.op = "none"
       /\ \E ip \in Ips, port \in PortSample, m \in WidthSample :
            Call_construct(ip, port, m)

SpecCalls == Init /\ [][NextCalls]_vars


\* ------------------------------------------------------------ properties

\* k lies in (a, b] walking clockwise from a to b; a = b is the full ring.
InOpenClosed(k, a, b) ==
    IF a < b THEN a < k /\ k <= b
    ELSE IF a > b THEN k > a \/ k <= b
    ELSE TRUE

\* k lies strictly between a and b walking clockwise from a to b.
InOpenOpen(k, a, b) ==
    IF a < b THEN a < k /\ k < b
    ELSE IF a > b THEN k > a \/ k < b
    ELSE k # a

\* Node n has joined no other node and has adopted no predecessor.
Alone(n) ==
    /\ alive[n]
    /\ successor[n] = Ref(n)
    /\ predecessor[n] = None
    /\ \A i \in 1 .. M : finger[n][i] = Ref(n)
    /\ \A i \in 1 .. Len(joinLog) : joinLog[i][1] # n

\* C1: on a node that has joined no ring and has no predecessor, a local
\* call find_successor(x) returns a handle to the node itself, for every
\* identifier x.
C1_AloneFindsItself ==
    \A n \in Node : Alone(n) =>
        \A x \in ID : find_successor(World, n, x) = Ok(Ref(n))

\* Only a has called join, on b, and the call has returned.
JoinedOnly(a, b) == joinLog = << <<a, b>> >> /\ jn[a].pc = "idle"

IsNode(h, n) == h # None /\ h.id = SelfId(n)

\* C2: after a.join(b) and no other join, the two nodes eventually reach and
\* keep successor(a) = b, predecessor(b) = a, successor(b) = a and
\* predecessor(a) = b.
C2_TwoNodeRingForms ==
    \A a \in Node : \A b \in Node \ {a} :
        <>[](JoinedOnly(a, b) =>
                /\ IsNode(successor[a], b) /\ IsNode(predecessor[b], a)
                /\ IsNode(successor[b], a) /\ IsNode(predecessor[a], b))

\* C3: in the stabilized ring of a and b, a.find_successor(x) returns the
\* node of the two that is the first at or clockwise after x, for every x.
C3_TwoNodeLookup ==
    probe.op = "find_successor" =>
        /\ probe.out.ok
        /\ IsNode(probe.out.val, RingSuccessorOf({probe.a, probe.b}, probe.x))

\* The nodes in the order of their identifiers.
N1 == CHOOSE n \in Node : \A o \in Node : SelfId(n) <= SelfId(o)

N3 == CHOOSE n \in Node : \A o \in Node : SelfId(n) >= SelfId(o)

N2 == CHOOSE n \in Node : n # N1 /\ n # N3

\* C4: after N2.join(N1) and then N3.join(N1), eventually and from then on
\* the ring is stabilized and find_successor(h1 + 1) returns N2 at each of the
\* three nodes.
C4_ThreeNodeLookup ==
    <>[]((joinLog = << <<N2, N1>>, <<N3, N1>> >> /\ \A n \in Node : jn[n].pc = "idle") =>
            /\ IsNode(successor[N1], N2) /\ IsNode(successor[N2], N3)
            /\ IsNode(successor[N3], N1)
            /\ \A n \in Node :
                 /\ find_successor(World, n, SelfId(N1) + 1).ok
                 /\ IsNode(find_successor(World, n, SelfId(N1) + 1).val, N2))

\* The nodes that have entered the ring of n through calls of join.
JoinedWith(n) ==
    LET link(G) == G \cup {x \in Node : \E i \in 1 .. Len(joinLog) :
                              \/ joinLog[i][1] = x /\ joinLog[i][2] \in G
                              \/ joinLog[i][2] = x /\ joinLog[i][1] \in G}
    IN  link(link(link({n})))

\* The node the successor pointer of n designates ("none" if none does).
SuccNode(n) ==
    IF n = "none" \/ successor[n] = None \/ NodeAt(successor[n]) = {} THEN "none"
    ELSE CHOOSE x \in NodeAt(successor[n]) : TRUE

RECURSIVE Follow(_, _)
Follow(n, k) == IF k = 0 THEN n ELSE SuccNode(Follow(n, k - 1))

\* Following successor pointers from n visits every node of G once and returns.
OneCycle(n, G) ==
    /\ Follow(n, Cardinality(G)) = n
    /\ {Follow(n, k) : k \in 0 .. (Cardinality(G) - 1)} = G

\* C5: the nodes that entered one ring through join eventually, and from then
\* on, form one cycle of successor pointers that visits each of them once.
C5_SingleCycle ==
    <>[](\A n \in Node : OneCycle(n, JoinedWith(n)))

\* C6: the interval test of the node is true iff walking clockwise from start
\* (excluded) to end (included) passes through k: with end < start for k > start
\* or k <= end, with start = end for every k.
C6_InBetweenRingAware ==
    probe.op = "_in_between" =>
        (probe.out <=> InOpenClosed(probe.k, probe.start, probe.end))

\* C7: a peer returned by closest_preceding_finger(id) has its id strictly
\* between the id of the node and id on the ring, whatever the finger table.
C7_FingerStrictlyBetween ==
    (probe.op = "closest_preceding_finger" /\ probe.out # None) =>
        InOpenOpen(probe.out.id, SelfId(probe.n), probe.id)

\* C8: the predecessor is replaced by a peer only when the id of the peer is
\* strictly between the id of the current predecessor (the id of the node
\* itself when it has none) and the id of the node, on the ring.
C8_NotifyStrictlyBetween ==
    [][\A n \in Node :
          (predecessor'[n] # predecessor[n] /\ predecessor'[n] # None) =>
              InOpenOpen(predecessor'[n].id,
                         IF predecessor[n] = None THEN SelfId(n)
                         ELSE predecessor[n].id,
                         SelfId(n))]_vars

\* The peer whose address a handle carries runs (and answers PING).
PeerAnswers(h) ==
    \E m \in Node : ip_of(m) = h.ip.s /\ port_of(m) = h.port /\ alive[m]

\* C9: a check of the predecessor whose ping gets no answer leaves no
\* predecessor, and check_predecessor does not clear a predecessor that keeps
\* answering PING.
C9_CheckPredecessor ==
    [][\A n \in Node :
          /\ (chk[n].pc = "wait" /\ chk'[n].pc = "idle" /\ chk[n].reply = NoResponse)
                => predecessor'[n] = None
          /\ (predecessor[n] # None /\ predecessor'[n] = None /\ joinLog' = joinLog)
                => ~PeerAnswers(predecessor[n])]_vars

\* C10: decoding the two parts to_zmq_multipart produces, in the client-side
\* parsers and in the NOTIFY branch of the server, gives back the same
\* (ip, port) and a handle of the same id, for every ip and port.
C10_RoundTrip ==
    probe.op = "round_trip" =>
        /\ probe.enc.ok
        /\ probe.client = probe.h
        /\ probe.server = probe.h

\* C11: join(peer) with peer.id = self_id changes neither the successor, nor
\* the predecessor, nor a finger, and sends no request to any node.
C11_JoinItselfNoOp ==
    [][\A n \in Node : \A m \in Node :
          (joinLog' = Append(joinLog, <<n, m>>) /\ Ref(m).id = SelfId(n)) =>
              /\ successor' = successor
              /\ predecessor' = predecessor
              /\ finger' = finger
              /\ inbox' = inbox
              /\ jn' = jn]_vars

\* A node has called join on its own handle.
C11_Witness ==
    \E i \in 1 .. Len(joinLog) : Ref(joinLog[i][2]).id = SelfId(joinLog[i][1])

\* C12: every call of a peer handle returns a value (a handle, none or a
\* boolean) and raises no exception, for every identifier and every outcome of
\* the transport.
C12_RpcNeverRaises ==
    probe.op = "rpc" => probe.out.ok

\* C13: for a request it handles the server sends at most one response frame,
\* and the first part of that frame is the client_address of this request.
C13_OneResponseToItsClient ==
    handled.by # "none" =>
        /\ Len(handled.sent) <= 1
        /\ \A i \in 1 .. Len(handled.sent) : handled.sent[i][1] = handled.message[1]

\* A response was sent while the request of another client waits.
C13_Witness ==
    /\ handled.by # "none"
    /\ Len(handled.sent) = 1
    /\ \E i \in 1 .. Len(inbox[handled.by]) :
            inbox[handled.by][i][1] # handled.message[1]

\* A request that violates the protocol: fewer than three parts, another
\* subsystem, an unknown operation, NOTIFY with other than two arguments.
ProtocolViolation(message) ==
    \/ Len(message) < 3
    \/ message[2].s # CHORD_SUBSYSTEM
    \/ message[3].s \notin {FIND_SUCCESSOR, FIND_PREDECESSOR, GET_SUCCESSOR,
                            GET_PREDECESSOR, NOTIFY, PING, CLOSEST_PRECEDING_FINGER}
    \/ message[3].s = NOTIFY /\ Len(message) # 5

\* C14: a request that violates the protocol gets no response frame and
\* leaves the successor, the predecessor and the fingers of the node unchanged.
C14_ViolationDropped ==
    [][\A n \in Node :
          (/\ inbox[n] # <<>>
           /\ inbox'[n] = Tail(inbox[n])
           /\ ProtocolViolation(Head(inbox[n]))) =>
              /\ handled'.sent = <<>>
              /\ chk' = chk
              /\ jn' = jn
              /\ successor'[n] = successor[n]
              /\ predecessor'[n] = predecessor[n]
              /\ finger'[n] = finger[n]]_vars

\* A server has handled a request that violates the protocol.
C14_Witness ==
    handled.by # "none" /\ ProtocolViolation(handled.message)

\* C15: the server never stops serving. Its thread keeps running after every
\* request and every failure, and again and again it has taken a request up or
\* has none waiting, so that every request delivered is taken up.
C15_ServerKeepsServing ==
    /\ [](\A n \in Running : threads[n]["start_server"] = "running")
    /\ \A n \in Running : []<><<Serve(n) \/ inbox[n] = <<>> >>_vars

\* The handling of a request has failed and a later request waits.
C15_Witness ==
    /\ handled.by # "none"
    /\ handled.err # "none"
    /\ inbox[handled.by] # <<>>
    /\ threads[handled.by]["start_server"] = "running"

\* C16: stabilize, fix_fingers and check_predecessor each execute infinitely
\* many iterations; a failure inside an iteration ends that iteration only.
C16_LoopsKeepRunning ==
    /\ [](\A n \in Running : \A l \in Loops : threads[n][l] = "running")
    /\ \A n \in Running :
        /\ []<><<Stabilize(n)>>_vars
        /\ []<><<FixFingers(n)>>_vars
        /\ []<><<CheckPredecessorPing(n)>>_vars

\* A join got no answer (the successor is None, on which stabilize and the
\* lookups of fix_fingers raise), iterations have run, and the loops run.
C16_Witness ==
    \E n \in Node :
        /\ successor[n] = None
        /\ jn[n].pc = "idle"
        /\ beat = 1
        /\ \A l \in Loops : threads[n][l] = "running"

\* C17: after stop() is called on a node, each of its four loops exits:
\* eventually all of them have ended.
C17_StopEndsLoops ==
    \A n \in Running :
        stopped[n] ~> (\A l \in Loops : threads[n][l] = "ended")

C20_PingTrueIffResponse ==
    (probe.op = "rpc" /\ probe.rpc = "ping") =>
        /\ probe.out.ok
        /\ probe.out.val = (probe.h.ip.t = "str" /\ PeerAnswers(probe.h))

\* ping() on the handle of a node that runs has returned True.
C20_Witness ==
    /\ probe.op = "rpc"
    /\ probe.rpc = "ping"
    /\ PeerAnswers(probe.h)
    /\ probe.out = Ok(TRUE)

\* C21: find_predecessor(id) returns a peer handle for every id, in every
\* state of the successor pointers and the finger tables: also when
\* closest_preceding_finger finds no finger, and within the hops followed.
C21_FindPredecessorReturns ==
    \A n \in Node : alive[n] =>
        \A x \in ID : find_predecessor(World, n, x).ok

\* C22: for every ring width m a node is constructed with, the id of the
\* node, the id of its handle and the start of each of its m fingers lie in
\* [0, 2^m).
C22_IdentifiersInRing ==
    probe.op = "construct" =>
        /\ probe.id \in 0 .. (2 ^ probe.m - 1)
        /\ probe.ref.id \in 0 .. (2 ^ probe.m - 1)
        /\ \A i \in 0 .. (probe.m - 1) : probe.starts[i] \in 0 .. (2 ^ probe.m - 1)

\* The state ChordNode.__init__ leaves node n in.
AsConstructed(n) ==
    /\ successor[n] = Ref(n)
    /\ predecessor[n] = None
    /\ \A i \in 1 .. M : finger[n][i] = Ref(n)

\* Node n has not called join.
NeverJoined(n) == \A i \in 1 .. Len(joinLog) : joinLog[i][1] # n

\* The server of node n takes a NOTIFY request up in this step.
ReceivesNotify(n) ==
    /\ inbox[n] # <<>>
    /\ inbox'[n] = Tail(inbox[n])
    /\ Len(Head(inbox[n])) >= 3
    /\ Head(inbox[n])[3].s = NOTIFY

\* C23: a node is constructed with successor = self, no predecessor and all
\* m fingers = self (its state before any call and any request, whatever
\* loops have run), and no step other than a join of the node or a notify
\* (called on it or received as NOTIFY) takes it out of that state: not an
\* iteration of stabilize, fix_fingers or check_predecessor, not another
\* request.
C23_AsConstructedUntilJoinOrNotify ==
    [][\A n \in Node :
          /\ (joinLog = <<>> /\ envCount = 0 /\ apiCount = 0) => AsConstructed(n)
          /\ (/\ <<successor[n], predecessor[n], finger[n]>>
                    # <<successor'[n], predecessor'[n], finger'[n]>>
              /\ AsConstructed(n)) =>
                \/ ~NeverJoined(n)'
                \/ \E m \in Node : ApiNotify(n, m)
                \/ ReceivesNotify(n)]_vars

\* A node that has not joined and was not notified is as constructed after
\* its loops have run and its server has handled a request, while another
\* node has joined.
C23_Witness ==
    \E n \in Node :
        /\ AsConstructed(n)
        /\ NeverJoined(n)
        /\ beat = 1
        /\ handled.by = n
        /\ joinLog # <<>>

\* C24: the server of a node takes one request at a time, the oldest, and has
\* finished it (its response sent, or the request dropped) before it takes
\* the next: a step that takes requests off the socket of node n takes
\* exactly the first, and the request it has finished is that one.
C24_OneRequestAtATime ==
    [][\A n \in Node :
          (inbox'[n] # inbox[n] /\ Len(inbox'[n]) <= Len(inbox[n])) =>
              /\ inbox'[n] = Tail(inbox[n])
              /\ handled'.by = n
              /\ handled'.message = Head(inbox[n])
              /\ handled'.err # "none" => handled'.sent = <<>>]_vars

\* A server has answered a request while a later request waits at its socket.
C24_Witness ==
    /\ handled.by # "none"
    /\ handled.err = "none"
    /\ Len(inbox[handled.by]) >= 1

\* A request of three parts for the subsystem, without arguments.
WellFormed(message, op) ==
    /\ Len(message) = 3
    /\ message[2].s = CHORD_SUBSYSTEM
    /\ message[3].s = op

\* C25: a well-formed PING is answered with exactly one response frame (the
\* address of its client and one empty part), in every state of the
\* successor, the predecessor and the fingers of the node; for a NOTIFY, with
\* whatever arguments and whether or not the predecessor changes, no frame is
\* sent.
C25_PingAnsweredNotifyNot ==
    handled.by # "none" =>
        /\ WellFormed(handled.message, PING) =>
               handled.sent = << <<handled.message[1], TextPart("")>> >>
        /\ (Len(handled.message) >= 3 /\ handled.message[3].s = NOTIFY) =>
               handled.sent = <<>>

\* A PING was answered by a node that has a predecessor, installed by a
\* NOTIFY before.
C25_Witness ==
    /\ handled.by # "none"
    /\ WellFormed(handled.message, PING)
    /\ Len(handled.sent) = 1
    /\ predecessor[handled.by] # None

\* The handle a GET request asks node n for: the pointer, or the handle of
\* the node itself when the pointer is absent.
Pointer(n, op) ==
    IF op = GET_SUCCESSOR
    THEN (IF successor[n] # None THEN successor[n] ELSE Ref(n))
    ELSE (IF predecessor[n] # None THEN predecessor[n] ELSE Ref(n))

\* C26: a GET_SUCCESSOR and a GET_PREDECESSOR request are always answered,
\* with one frame that carries the ip and the port of the successor, of the
\* predecessor, as the pointer is when the request is handled, and of the
\* node itself when the pointer is absent.
C26_GetAnswered ==
    [][\A n \in Node : \A op \in {GET_SUCCESSOR, GET_PREDECESSOR} :
          (/\ inbox[n] # <<>>
           /\ inbox'[n] = Tail(inbox[n])
           /\ WellFormed(Head(inbox[n]), op)) =>
              handled'.sent = << <<Head(inbox[n])[1],
                                   TextPart(Pointer(n, op).ip.s),
                                   IntPart(Pointer(n, op).port)>> >>]_vars

\* C27: join(peer) with peer.id different from the id of the node clears the
\* predecessor and makes one remote call, peer.find_successor(self_id), whose
\* result becomes the successor when it returns; the fingers stay as they are.
C27_JoinCallsPeerOnce ==
    [][\A n \in Node :
          /\ \A m \in Node :
                (joinLog' = Append(joinLog, <<n, m>>) /\ Ref(m).id # SelfId(n)) =>
                    /\ predecessor'[n] = None
                    /\ jn'[n] = [pc |-> "wait", target |-> m, reply |-> NoResponse]
                    /\ finger'[n] = finger[n]
          /\ (jn[n].pc = "wait" /\ jn'[n].pc = "idle") =>
                    /\ ParseResponse(jn[n].reply).ok
                    /\ successor'[n] = ParseResponse(jn[n].reply).val
                    /\ finger'[n] = finger[n]]_vars

\* The predecessor the successor of node n reports to a GET_PREDECESSOR
\* request (its predecessor, itself when it has none); None when no node
\* answers at the address of the successor.
ReportedPredecessor(n) ==
    IF SuccNode(n) = "none" \/ ~alive[SuccNode(n)] THEN None
    ELSE Pointer(SuccNode(n), GET_PREDECESSOR)

\* C28: an iteration of stabilize on node n adopts p, the predecessor its
\* successor reports, as the predecessor of n exactly when p.id lies in
\* (self_id, successor.id] on the ring, and changes nothing otherwise; it
\* never changes the successor or a finger and sends no request to be handled.
C28_StabilizeAdopts ==
    [][\A n \in Node : Stabilize(n) =>
          /\ predecessor'[n] =
                IF /\ ReportedPredecessor(n) # None
                   /\ InOpenClosed(ReportedPredecessor(n).id, SelfId(n),
                                   successor[n].id)
                THEN ReportedPredecessor(n)
                ELSE predecessor[n]
          /\ successor'[n] = successor[n]
          /\ finger'[n] = finger[n]
          /\ inbox' = inbox]_vars

\* C29: a peer becomes the predecessor of a node only by notify, called on
\* the node or received as a NOTIFY request: in no other step does the
\* predecessor change to a peer. A step of join or of check_predecessor
\* leaves the predecessor as it is or clears it.
C29_OnlyNotifyInstalls ==
    [][\A n \in Node :
          /\ (predecessor'[n] # predecessor[n] /\ predecessor'[n] # None) =>
                \/ \E m \in Node : ApiNotify(n, m)
                \/ ReceivesNotify(n)
          /\ (\/ joinLog' # joinLog
              \/ CheckPredecessorPing(n)
              \/ CheckPredecessorDone(n)) =>
                predecessor'[n] \in {predecessor[n], None}]_vars

\* A node has a predecessor, installed by the NOTIFY its server handled
\* last, and its loops have run.
C29_Witness ==
    /\ handled.by # "none"
    /\ Len(handled.message) = 5
    /\ handled.message[3].s = NOTIFY
    /\ predecessor[handled.by] # None
    /\ beat = 1

\* C30: a sweep of fix_fingers assigns every entry, from index m-1 down to
\* 0: the step of the sweep at index i assigns finger[i] the result of
\* find_successor((self_id + 2^i) mod 2^m) and the sweep goes on to index
\* i-1 (a new sweep, at m-1, after index 0), whatever the lookup gave.
C30_SweepAssignsEveryEntry ==
    [][\A n \in Node : FixFingers(n) =>
          /\ find_successor(World, n, finger_start(SelfId(n), ffIdx[n], M)).ok
          /\ finger'[n][ffIdx[n] + 1] =
                find_successor(World, n, finger_start(SelfId(n), ffIdx[n], M)).val
          /\ ffIdx'[n] = IF ffIdx[n] = 0 THEN M - 1 ELSE ffIdx[n] - 1]_vars

\* The nodes of the ring of n that run.
LiveRing(n) == {x \in JoinedWith(n) : alive[x]}

\* Every finger of node n is the live node of its ring that is the first at
\* or clockwise after the start of the finger, and finger[0] is the successor.
FingersConverged(n) ==
    /\ \A i \in 0 .. (M - 1) :
          /\ finger[n][i + 1] # None
          /\ finger[n][i + 1].id =
                SelfId(RingSuccessorOf(LiveRing(n), finger_start(SelfId(n), i, M)))
    /\ successor[n] # None
    /\ finger[n][1].id = successor[n].id

\* C31: once the joins are over, the finger table of every running node
\* converges and stays converged: finger[i] is the first live node of the
\* ring at or clockwise after (self_id + 2^i) mod 2^m, and finger[0] has the
\* id of the successor.
C31_FingersConverge ==
    <>[](\A n \in Running : FingersConverged(n))

\* A lookup request with its argument.
LookupRequest(message) ==
    /\ Len(message) = 4
    /\ message[2].s = CHORD_SUBSYSTEM
    /\ message[3].s \in {FIND_SUCCESSOR, FIND_PREDECESSOR}

\* C32: a node sends no request to its own address while it looks up, and
\* the server of a node whose lookups are settled by its own state (it is as
\* constructed: the one node of its ring) answers a FIND_SUCCESSOR and a
\* FIND_PREDECESSOR request in the step that handles it, without a wait.
C32_LocalLookupAnswered ==
    [][\A n \in Node :
          (/\ inbox[n] # <<>>
           /\ inbox'[n] = Tail(inbox[n])
           /\ LookupRequest(Head(inbox[n]))
           /\ AsConstructed(n)) =>
              /\ \A x \in Node : Len(inbox'[x]) <= Len(inbox[x])
              /\ Len(handled'.sent) = 1
              /\ handled'.sent[1][1] = Head(inbox[n])[1]]_vars

\* A call of node n waits for the reply of a peer: the ping of
\* check_predecessor, or the lookup of a join on the thread of its caller.
Blocked(n) == alive[n] /\ (chk[n].pc = "wait" \/ jn[n].pc = "wait")

\* C33: while a call of a node waits for a reply, the other loops of the node
\* can take their steps: stabilize and fix_fingers an iteration, the server a
\* request that waits, check_predecessor its ping when it is the join that
\* waits.
C33_LoopsIndependent ==
    \A n \in Node : Blocked(n) =>
        /\ ENABLED Stabilize(n)
        /\ ENABLED FixFingers(n)
        /\ inbox[n] # <<>> => ENABLED Serve(n)
        /\ chk[n].pc = "idle" => ENABLED CheckPredecessorPing(n)

\* The ping of check_predecessor waits for a peer that does not answer, while
\* a request waits at the server of the node and its loops have run.
C33_Witness ==
    \E n \in Node :
        /\ chk[n].pc = "wait"
        /\ ~alive[chk[n].target]
        /\ inbox[n] # <<>>
        /\ beat = 1

C35_ClearsOnlyThePingedPeer ==
    [][\A n \in Node :
          (/\ chk[n].pc = "wait"
           /\ chk'[n].pc = "idle"
           /\ predecessor[n] # None
           /\ predecessor'[n] = None) =>
              NodeAt(predecessor[n]) = {chk[n].target}]_vars

C37_OnlyNotifyChangesState ==
    [][\A n \in Node :
          (inbox[n] # <<>> /\ inbox'[n] = Tail(inbox[n])) =>
              /\ successor' = successor
              /\ finger' = finger
              /\ \A x \in Node \ {n} : predecessor'[x] = predecessor[x]
              /\ predecessor'[n] # predecessor[n] => ReceivesNotify(n)]_vars

\* A node that has a predecessor has answered a request other than NOTIFY.
C37_Witness ==
    /\ handled.by # "none"
    /\ Len(handled.message) >= 3
    /\ handled.message[3].s \in {GET_PREDECESSOR, PING, CLOSEST_PRECEDING_FINGER}
    /\ handled.err = "none"
    /\ predecessor[handled.by] # None

\* The events of the pipe p that bear the uuid u, in the order sent.
EventsIn(p, u) ==
    LET of_u(e) == e[2] = u
    IN  SelectSeq(p, of_u)

\* JOINED, LEFT, JOINED, ...: starting with JOINED.
Alternates(events) ==
    \A i \in 1 .. Len(events) :
        events[i][1] = IF i % 2 = 1 THEN JOINED ELSE LEFT

\* The events sent in this step.
Sent == SubSeq(pipe', Len(pipe) + 1, Len(pipe'))

\* C38: for every uuid the events on the pipe alternate JOINED, LEFT,
\* JOINED, ..., whatever the order of announcements, runs of
\* remove_dead_peers and seconds passing. JOINED is sent exactly in the step
\* in which an announcement enters a uuid that was not in the table, LEFT
\* exactly in the step in which remove_dead_peers drops an entry, which is
\* then expired; the announcement of a uuid in the table sends nothing and
\* moves its expiration to now + expiration_time.
C38_EventsAlternate ==
    [][\A u \in Uuid :
          /\ Alternates(EventsIn(pipe', u))
          /\ Len(EventsIn(Sent, u)) <= 1
          /\ (<<JOINED, u>> \in {Sent[i] : i \in 1 .. Len(Sent)})
                <=> (~Known(u) /\ Known(u)')
          /\ (<<LEFT, u>> \in {Sent[i] : i \in 1 .. Len(Sent)})
                <=> (Known(u) /\ ~Known(u)')
          /\ (Known(u) /\ ~Known(u)') =>
                \E i \in 1 .. Len(peers) :
                    peers[i].uuid = u /\ is_expired(peers[i], now)
          /\ (Known(u) /\ Announce(u)) =>
                /\ pipe' = pipe
                /\ \A i \in 1 .. Len(peers') :
                      peers'[i].uuid = u =>
                          peers'[i].expiration_time = now + ExpirationTime]_vars

\* A peer has joined, has left, and has joined again.
C38_Witness ==
    \E u \in Uuid :
        /\ Len(EventsIn(pipe, u)) = 3
        /\ Known(u)

\* The last k entries of a list, all of them when it has fewer.
LastOf(list, k) ==
    IF k >= Len(list) THEN list ELSE SubSeq(list, Len(list) - k + 1, Len(list))

\* C39: after any calls of add_peer and remove_peer, get_peers(service,
\* max_amount) returns at most max_amount peers (none for 0): the last
\* max_amount entries of the list of the service, in the order of insertion;
\* and no list holds more than max_peers_per_service entries.
C39_GetPeersAtMost ==
    /\ \A s \in Service : Len(services_and_peers[s]) <= max_peers_per_service
    /\ probe.op = "get_peers" =>
          /\ Len(probe.out) <= probe.max_amount
          /\ probe.out = LastOf(probe.stored, probe.max_amount)

====
